---------------------------- MODULE Spec2Model ----------------------------
(***************************************************************************)
(* A model of the assistant bot of src/Home_task_8.py: the address book,   *)
(* its validated fields, the command handlers, the command loop of main()  *)
(* and the pickle snapshot file address_book.pkl.                          *)
(*                                                                         *)
(* A text (Python str) is a sequence of characters; a character is a       *)
(* one-character string, except "U+0663" which stands for the single       *)
(* non-ASCII character ARABIC-INDIC DIGIT THREE.                           *)
(***************************************************************************)
EXTENDS Integers, Sequences, FiniteSets, TLC

(***************************************************************************)
(* Bounds of the model.                                                    *)
(***************************************************************************)
\* input lines read over the whole run (all sessions together)
MaxTurns == 3
\* runs of main() on the same snapshot file
MaxSessions == 2

(***************************************************************************)
(* Characters and str methods.                                             *)
(***************************************************************************)
AsciiDigits == {"0", "1", "2", "3", "4", "5", "6", "7", "8", "9"}

\* characters outside ASCII for which str.isdigit() is true as well
UnicodeDigits == {"U+0663"}

Whitespace == {" "}

\* int() of one digit character
DigitVal(c) ==
    CASE c = "0" -> 0 [] c = "1" -> 1 [] c = "2" -> 2 [] c = "3" -> 3
      [] c = "4" -> 4 [] c = "5" -> 5 [] c = "6" -> 6 [] c = "7" -> 7
      [] c = "8" -> 8 [] c = "9" -> 9 [] c = "U+0663" -> 3

\* str.isdigit(): every character is a digit and there is at least one
isdigit(value) ==
    /\ Len(value) > 0
    /\ \A i \in 1..Len(value) : value[i] \in AsciiDigits \cup UnicodeDigits

\* int() of a text of digits
RECURSIVE int(_)
int(s) ==
    IF s = <<>> THEN 0
    ELSE 10 * int(SubSeq(s, 1, Len(s) - 1)) + DigitVal(s[Len(s)])

\* sep.join(parts)
RECURSIVE join(_, _)
join(sep, parts) ==
    IF parts = <<>> THEN <<>>
    ELSE IF Len(parts) = 1 THEN parts[1]
    ELSE parts[1] \o sep \o join(sep, Tail(parts))

\* str.strip(): leading and trailing whitespace removed
RECURSIVE strip(_)
strip(s) ==
    IF s = <<>> THEN s
    ELSE IF Head(s) \in Whitespace THEN strip(Tail(s))
    ELSE IF s[Len(s)] \in Whitespace THEN strip(SubSeq(s, 1, Len(s) - 1))
    ELSE s

\* str.split(): the maximal runs of non-whitespace characters, in order
RECURSIVE SplitAcc(_, _, _)
SplitAcc(s, cur, acc) ==
    IF s = <<>> THEN (IF cur = <<>> THEN acc ELSE Append(acc, cur))
    ELSE IF Head(s) \in Whitespace
         THEN SplitAcc(Tail(s), <<>>, IF cur = <<>> THEN acc ELSE Append(acc, cur))
         ELSE SplitAcc(Tail(s), Append(cur, Head(s)), acc)

split(s) == SplitAcc(s, <<>>, <<>>)

parse_input(user_input) == split(strip(user_input))

(***************************************************************************)
(* Phone: the check of Phone.__init__.                                     *)
(***************************************************************************)
PhoneLen == 10

\* TRUE iff Phone(value) raises ValueError("Phone number must be 10 digits.")
PhoneRaises(value) == ~isdigit(value) \/ Len(value) # PhoneLen

(***************************************************************************)
(* Dates: datetime.strptime(value, '%d.%m.%Y') and date arithmetic.        *)
(***************************************************************************)
\* the positions of "." in a text
DotsOf(s) == {i \in 1..Len(s) : s[i] = "."}

IsLeap(y) == y % 4 = 0 /\ (y % 100 # 0 \/ y % 400 = 0)

DaysInMonth(y, m) ==
    IF m = 2 THEN (IF IsLeap(y) THEN 29 ELSE 28)
    ELSE IF m \in {4, 6, 9, 11} THEN 30 ELSE 31

RECURSIVE DaysBeforeMonth(_, _)
DaysBeforeMonth(y, m) ==
    IF m = 1 THEN 0 ELSE DaysBeforeMonth(y, m - 1) + DaysInMonth(y, m - 1)

DaysBeforeYear(y) ==
    (y - 1) * 365 + (y - 1) \div 4 - (y - 1) \div 100 + (y - 1) \div 400

\* the proleptic Gregorian ordinal of a date (date.toordinal())
Ordinal(y, m, d) == DaysBeforeYear(y) + DaysBeforeMonth(y, m) + d

\* the three fields of a text with exactly two dots
DateFields(s) ==
    LET d1 == CHOOSE i \in DotsOf(s) : \A j \in DotsOf(s) : i <= j
        d2 == CHOOSE i \in DotsOf(s) : \A j \in DotsOf(s) : j <= i
    IN  [d |-> SubSeq(s, 1, d1 - 1),
         m |-> SubSeq(s, d1 + 1, d2 - 1),
         Y |-> SubSeq(s, d2 + 1, Len(s))]

\* the characters the pattern \d matches, and those [1-9] matches
ReDigit == AsciiDigits \cup UnicodeDigits

NonZero == AsciiDigits \ {"0"}

\* %d is (3[0-1]|[1-2]\d|0[1-9]|[1-9]), %m is (1[0-2]|0[1-9]|[1-9]), %Y is (\d\d\d\d)
DayField(f) ==
    \/ Len(f) = 2 /\ f[1] = "3" /\ f[2] \in {"0", "1"}
    \/ Len(f) = 2 /\ f[1] \in {"1", "2"} /\ f[2] \in ReDigit
    \/ Len(f) = 2 /\ f[1] = "0" /\ f[2] \in NonZero
    \/ Len(f) = 1 /\ f[1] \in NonZero

MonthField(f) ==
    \/ Len(f) = 2 /\ f[1] = "1" /\ f[2] \in {"0", "1", "2"}
    \/ Len(f) = 2 /\ f[1] = "0" /\ f[2] \in NonZero
    \/ Len(f) = 1 /\ f[1] \in NonZero

YearField(f) == Len(f) = 4 /\ \A i \in 1..4 : f[i] \in ReDigit

\* strptime(s, '%d.%m.%Y') raises no ValueError: the text matches the pattern
\* of the format in full and names a date that exists (the year from 1 on)
StrptimeOk(s) ==
    /\ Cardinality(DotsOf(s)) = 2
    /\ LET f == DateFields(s)
       IN  /\ DayField(f.d)
           /\ MonthField(f.m)
           /\ YearField(f.Y)
           /\ int(f.Y) >= 1
           /\ int(f.d) <= DaysInMonth(int(f.Y), int(f.m))

\* the date strptime returns, for a text with StrptimeOk
strptime(s) ==
    LET f == DateFields(s)
    IN  [year |-> int(f.Y), month |-> int(f.m), day |-> int(f.d)]

\* a datetime as compared by <=: the day's ordinal and the seconds since midnight
DateTime(y, m, d, sec) == [ord |-> Ordinal(y, m, d), sec |-> sec]

\* datetime <= datetime
DtLe(a, b) == a.ord < b.ord \/ (a.ord = b.ord /\ a.sec <= b.sec)

WindowDays == 7

\* datetime + timedelta(days = n)
PlusDays(dt, n) == [dt EXCEPT !.ord = dt.ord + n]


(***************************************************************************)
(* Records and the address book.                                           *)
(*                                                                         *)
(* A Field object is modelled by its value. A Phone object sits in exactly *)
(* one phones list (add_phone builds a new one each time), so assigning    *)
(* phone.value is replacing that position of the list. AddressBook.records *)
(* is a dict: a sequence of entries in insertion order with distinct keys. *)
(***************************************************************************)
\* record.birthday: None, or a Birthday object with its value
None == [has |-> FALSE, value |-> <<>>]

Birthday(value) == [has |-> TRUE, value |-> value]

\* Record.__init__
Record(name) == [name |-> name, phones |-> <<>>, birthday |-> None]

\* AddressBook.__init__: self.records = {}
AddressBook == <<>>

\* the position of the key in the dict, 0 when it is not a key
KeyIndex(records, name) ==
    IF \E i \in 1..Len(records) : records[i].key = name
    THEN CHOOSE i \in 1..Len(records) : records[i].key = name
    ELSE 0

\* AddressBook.find: self.records.get(name); 0 stands for None
find(records, name) == KeyIndex(records, name)

\* AddressBook.add_record: self.records[record.name.value] = record
add_record(records, record) ==
    LET i == KeyIndex(records, record.name)
    IN  IF i = 0
        THEN Append(records, [key |-> record.name, rec |-> record])
        ELSE [records EXCEPT ![i].rec = record]

\* add_phone with the bug of inserting the new phone at the front
add_phone_front(records, i, phone) ==
    [records EXCEPT ![i].rec.phones = <<phone>> \o @]

\* Record.add_phone on the record at position i, for a phone Phone() accepts
add_phone(records, i, phone) ==
    [records EXCEPT ![i].rec.phones = Append(@, phone)]

\* Record.add_birthday on the record at position i, for a date Birthday() accepts
set_birthday(records, i, birthday) ==
    [records EXCEPT ![i].rec.birthday = Birthday(birthday)]

(***************************************************************************)
(* Printed lines: a format and the texts put into it.                      *)
(***************************************************************************)
Line(fmt, args) == [fmt |-> fmt, args |-> args]

MsgPhoneError == Line("Phone number must be 10 digits.", <<>>)
MsgDateError == Line("Invalid date format. Use DD.MM.YYYY", <<>>)
MsgContactNotFound == Line("Contact not found.", <<>>)
MsgOldPhoneNotFound == Line("Old phone number not found.", <<>>)
MsgBirthdayNotFound == Line("Birthday not found.", <<>>)
MsgNoBirthdays == Line("No birthdays in the next week.", <<>>)
MsgInvalidCommand == Line("Invalid command.", <<>>)
MsgHello == Line("How can I help you?", <<>>)
MsgWelcome == Line("Welcome to the assistant bot!", <<>>)
MsgGoodBye == Line("Good bye!", <<>>)

\* str(e) of the ValueError of unpacking too few values: name, phone, *_ = args
MsgUnpack(expected, got) ==
    Line("not enough values to unpack (expected at least {}, got {})",
         << <<ToString(expected)>>, <<ToString(got)>> >>)

\* the line of one record, as find_contact and the "all" branch of main format it
RecordLine(rec) ==
    Line("Name: {}, Phones: {}, Birthday: {}",
         <<rec.name,
           join(<<",", " ">>, rec.phones),
           IF rec.birthday.has THEN rec.birthday.value ELSE <<"N", "/", "A">> >>)

(***************************************************************************)
(* The command handlers. Each gives the book as the call leaves it, whether *)
(* the call raised, and the value returned or the raised exception's text. *)
(***************************************************************************)
Returns(records, ret) == [book |-> records, raised |-> FALSE, ret |-> ret]

Raises(records, msg) == [book |-> records, raised |-> TRUE, ret |-> msg]

\* input_error: an exception of the handler becomes the returned str(e); what the
\* handler did to the book before raising stays done
input_error(res) == [book |-> res.book, ret |-> res.ret]

\* add_contact with the bug of building a new Record whether or not one was found
add_contact_fresh(args, records) ==
    IF Len(args) < 2 THEN Raises(records, MsgUnpack(2, Len(args)))
    ELSE LET name == args[1]
             phone == args[2]
             found == find(records, name)
             book1 == add_record(records, Record(name))
             record == find(book1, name)
             message == IF found = 0 THEN Line("Contact added.", <<>>)
                        ELSE Line("Contact updated.", <<>>)
         IN  IF phone # <<>>
             THEN IF PhoneRaises(phone) THEN Raises(book1, MsgPhoneError)
                  ELSE Returns(add_phone(book1, record, phone), message)
             ELSE Returns(book1, message)

add_contact(args, records) ==
    IF Len(args) < 2 THEN Raises(records, MsgUnpack(2, Len(args)))
    ELSE LET name == args[1]
             phone == args[2]
             found == find(records, name)
             book1 == IF found = 0 THEN add_record(records, Record(name)) ELSE records
             record == find(book1, name)
             message == IF found = 0 THEN Line("Contact added.", <<>>)
                        ELSE Line("Contact updated.", <<>>)
         IN  IF phone # <<>>
             THEN IF PhoneRaises(phone) THEN Raises(book1, MsgPhoneError)
                  ELSE Returns(add_phone(book1, record, phone), message)
             ELSE Returns(book1, message)

\* FirstMatch with the bug of a loop that does not stop at the first match
LastMatch(phones, old_phone) ==
    IF \E i \in 1..Len(phones) : phones[i] = old_phone
    THEN CHOOSE i \in 1..Len(phones) :
            /\ phones[i] = old_phone
            /\ \A j \in (i + 1)..Len(phones) : phones[j] # old_phone
    ELSE 0

\* the first position of phones whose value equals old_phone, 0 when there is none
FirstMatch(phones, old_phone) ==
    IF \E i \in 1..Len(phones) : phones[i] = old_phone
    THEN CHOOSE i \in 1..Len(phones) :
            /\ phones[i] = old_phone
            /\ \A j \in 1..(i - 1) : phones[j] # old_phone
    ELSE 0

change_contact(args, records) ==
    IF Len(args) < 3 THEN Raises(records, MsgUnpack(3, Len(args)))
    ELSE LET name == args[1]
             old_phone == args[2]
             new_phone == args[3]
             record == find(records, name)
         IN  IF record # 0
             THEN LET k == FirstMatch(records[record].rec.phones, old_phone)
                  IN  IF k # 0
                      THEN Returns([records EXCEPT ![record].rec.phones[k] = new_phone],
                                   Line("Phone number updated for {name}.", <<name>>))
                      ELSE Returns(records, MsgOldPhoneNotFound)
             ELSE Returns(records, MsgContactNotFound)

add_birthday(args, records) ==
    IF Len(args) < 2 THEN Raises(records, MsgUnpack(2, Len(args)))
    ELSE LET name == args[1]
             birthday == args[2]
             record == find(records, name)
         IN  IF record # 0
             THEN IF ~StrptimeOk(birthday) THEN Raises(records, MsgDateError)
                  ELSE Returns(set_birthday(records, record, birthday),
                               Line("Birthday added for {name}.", <<name>>))
             ELSE Returns(records, MsgContactNotFound)

show_birthday(args, records) ==
    IF Len(args) < 1 THEN Raises(records, MsgUnpack(1, Len(args)))
    ELSE LET name == args[1]
             record == find(records, name)
         IN  IF record # 0 /\ records[record].rec.birthday.has
             THEN Returns(records, Line("{name}'s birthday is on {}.",
                                        <<name, records[record].rec.birthday.value>>))
             ELSE Returns(records, MsgBirthdayNotFound)

find_contact(args, records) ==
    IF Len(args) < 1 THEN Raises(records, MsgUnpack(1, Len(args)))
    ELSE LET name == args[1]
             record == find(records, name)
         IN  IF record # 0 THEN Returns(records, RecordLine(records[record].rec))
             ELSE Returns(records, MsgContactNotFound)

\* the names the comprehension of birthdays() keeps, in the order of the dict;
\* now is datetime.today(): a date and the seconds since midnight
RECURSIVE upcoming_birthdays(_, _)
upcoming_birthdays(records, now) ==
    IF records = <<>> THEN <<>>
    ELSE LET rec == Head(records).rec
             today == DateTime(now.year, now.month, now.day, now.sec)
             next_week == PlusDays(today, WindowDays)
             b == strptime(rec.birthday.value)
             at == DateTime(b.year, b.month, b.day, 0)
             keep == rec.birthday.has /\ DtLe(today, at) /\ DtLe(at, next_week)
         IN  (IF keep THEN <<rec.name>> ELSE <<>>)
                 \o upcoming_birthdays(Tail(records), now)

birthdays(args, records, now) ==
    LET upcoming == upcoming_birthdays(records, now)
    IN  IF upcoming # <<>>
        THEN Returns(records, Line("Upcoming birthdays: {}",
                                   <<join(<<",", " ">>, upcoming)>>))
        ELSE Returns(records, MsgNoBirthdays)


(***************************************************************************)
(* pickle: the book as a stream of opcodes, and the stream read back.      *)
(* A string opcode carries its text; an object opcode names its class.     *)
(***************************************************************************)
Tok(op, arg) == [op |-> op, arg |-> arg]

Op(op) == Tok(op, <<>>)

\* a Field object with its value
DumpField(class, value) == <<Op(class), Tok("UNICODE", value), Op("BUILD")>>

RECURSIVE DumpPhones(_)
DumpPhones(phones) ==
    IF phones = <<>> THEN <<>>
    ELSE DumpField("OBJ Phone", Head(phones)) \o DumpPhones(Tail(phones))

\* DumpRecord with the bug of leaving the birthday out of the state written
DumpRecord_NoBirthday(rec) ==
    <<Op("OBJ Record")>>
        \o DumpField("OBJ Name", rec.name)
        \o <<Op("EMPTY_LIST"), Op("MARK")>> \o DumpPhones(rec.phones) \o <<Op("APPENDS")>>
        \o <<Op("NONE")>>
        \o <<Op("BUILD")>>

DumpRecord(rec) ==
    <<Op("OBJ Record")>>
        \o DumpField("OBJ Name", rec.name)
        \o <<Op("EMPTY_LIST"), Op("MARK")>> \o DumpPhones(rec.phones) \o <<Op("APPENDS")>>
        \o (IF rec.birthday.has THEN DumpField("OBJ Birthday", rec.birthday.value)
            ELSE <<Op("NONE")>>)
        \o <<Op("BUILD")>>

RECURSIVE DumpItems(_)
DumpItems(records) ==
    IF records = <<>> THEN <<>>
    ELSE <<Tok("UNICODE", Head(records).key)>> \o DumpRecord(Head(records).rec)
             \o DumpItems(Tail(records))

\* pickle.dump(self, f): everything written to f
pickle_dump(records) ==
    <<Op("PROTO"), Op("OBJ AddressBook"), Op("EMPTY_DICT"), Op("MARK")>>
        \o DumpItems(records)
        \o <<Op("SETITEMS"), Op("BUILD"), Op("STOP")>>

\* the opcode at a position; reading past the end is the end of the file
Tk(data, i) == IF i \in 1..Len(data) THEN data[i] ELSE Op("EOF")

Parsed(pos, val) == [ok |-> TRUE, pos |-> pos, val |-> val]

Unpickling == [ok |-> FALSE, pos |-> 0, val |-> <<>>]

\* whether a Field object of the class starts at position i
FieldAt(data, i, class) ==
    /\ Tk(data, i).op = class
    /\ Tk(data, i + 1).op = "UNICODE"
    /\ Tk(data, i + 2).op = "BUILD"

RECURSIVE LoadPhones(_, _, _)
LoadPhones(data, i, acc) ==
    IF Tk(data, i).op = "APPENDS" THEN Parsed(i + 1, acc)
    ELSE IF FieldAt(data, i, "OBJ Phone")
         THEN LoadPhones(data, i + 3, Append(acc, Tk(data, i + 1).arg))
         ELSE Unpickling

LoadRecord(data, i) ==
    IF /\ Tk(data, i).op = "OBJ Record"
       /\ FieldAt(data, i + 1, "OBJ Name")
       /\ Tk(data, i + 4).op = "EMPTY_LIST"
       /\ Tk(data, i + 5).op = "MARK"
    THEN LET name == Tk(data, i + 2).arg
             ph == LoadPhones(data, i + 6, <<>>)
         IN  IF ~ph.ok THEN Unpickling
             ELSE IF Tk(data, ph.pos).op = "NONE" /\ Tk(data, ph.pos + 1).op = "BUILD"
                  THEN Parsed(ph.pos + 2,
                              [name |-> name, phones |-> ph.val, birthday |-> None])
             ELSE IF FieldAt(data, ph.pos, "OBJ Birthday")
                     /\ Tk(data, ph.pos + 3).op = "BUILD"
                  THEN Parsed(ph.pos + 4,
                              [name |-> name, phones |-> ph.val,
                               birthday |-> Birthday(Tk(data, ph.pos + 1).arg)])
             ELSE Unpickling
    ELSE Unpickling

RECURSIVE LoadItems(_, _, _)
LoadItems(data, i, acc) ==
    IF Tk(data, i).op = "SETITEMS" THEN Parsed(i + 1, acc)
    ELSE IF Tk(data, i).op = "UNICODE"
         THEN LET r == LoadRecord(data, i + 1)
              IN  IF r.ok
                  THEN LoadItems(data, r.pos,
                                 Append(acc, [key |-> Tk(data, i).arg, rec |-> r.val]))
                  ELSE Unpickling
         ELSE Unpickling

\* pickle.load(f): the book read back, or not ok when unpickling raises
pickle_load(data) ==
    IF /\ Tk(data, 1).op = "PROTO"
       /\ Tk(data, 2).op = "OBJ AddressBook"
       /\ Tk(data, 3).op = "EMPTY_DICT"
       /\ Tk(data, 4).op = "MARK"
    THEN LET items == LoadItems(data, 5, <<>>)
         IN  IF items.ok /\ Tk(data, items.pos).op = "BUILD"
                         /\ Tk(data, items.pos + 1).op = "STOP"
             THEN Parsed(items.pos + 2, items.val)
             ELSE Unpickling
    ELSE Unpickling

\* the file address_book.pkl: whether it exists, and its content
NoFile == [exists |-> FALSE, data |-> <<>>]

FileOf(data) == [exists |-> TRUE, data |-> data]

\* open(filename, 'wb'): the file is created or truncated
open_wb(f) == FileOf(<<>>)

\* load_from_file with the bug of not catching FileNotFoundError
load_from_file_NoCatch(f) ==
    IF ~f.exists THEN Unpickling
    ELSE pickle_load(f.data)

\* AddressBook.load_from_file: FileNotFoundError gives a new AddressBook; any
\* other exception of pickle.load leaves the function
load_from_file(f) ==
    IF ~f.exists THEN Parsed(0, AddressBook)
    ELSE pickle_load(f.data)


(***************************************************************************)
(* The inputs: the lines typed, and the clock.                             *)
(***************************************************************************)
Anna == <<"A", "n", "n", "a">>
Bob == <<"B", "o", "b">>

Names == {Anna, Bob}

Phone1 == <<"0", "5", "0", "1", "2", "3", "4", "5", "6", "7">>
Phone2 == <<"0", "5", "0", "9", "9", "9", "9", "9", "9", "9">>
PhoneShort == <<"1", "2", "3", "4", "5">>
PhoneArabic == <<"0", "5", "0", "1", "2", "3", "4", "5", "6", "U+0663">>

PhoneTexts == {Phone1, Phone2, PhoneShort, PhoneArabic}

\* 07.11.2026, 07.11.1990, 05.11.2026 and the date that does not exist 31.02.2024
DateSoon == <<"0", "7", ".", "1", "1", ".", "2", "0", "2", "6">>
DateSoonOld == <<"0", "7", ".", "1", "1", ".", "1", "9", "9", "0">>
DateToday == <<"0", "5", ".", "1", "1", ".", "2", "0", "2", "6">>
DateBad == <<"3", "1", ".", "0", "2", ".", "2", "0", "2", "4">>

DateTexts == {DateSoon, DateSoonOld, DateToday, DateBad}

\* datetime.today(): 5 November 2026, at midnight sharp or at 14:00
Clock == {[year |-> 2026, month |-> 11, day |-> 5, sec |-> t] : t \in {0, 50400}}

V_hello == <<"h", "e", "l", "l", "o">>
V_add == <<"a", "d", "d">>
V_change == <<"c", "h", "a", "n", "g", "e">>
V_phone == <<"p", "h", "o", "n", "e">>
V_all == <<"a", "l", "l">>
V_add_birthday == <<"a", "d", "d", "-", "b", "i", "r", "t", "h", "d", "a", "y">>
V_show_birthday == <<"s", "h", "o", "w", "-", "b", "i", "r", "t", "h", "d", "a", "y">>
V_birthdays == <<"b", "i", "r", "t", "h", "d", "a", "y", "s">>
V_close == <<"c", "l", "o", "s", "e">>
V_exit == <<"e", "x", "i", "t">>
V_other == <<"h", "e", "l", "p">>

\* the token lists typed: every verb with its arguments, with too few and with one
\* too many
TokenLists ==
    {<<V_hello>>, <<V_all>>, <<V_birthdays>>, <<V_close>>, <<V_exit>>, <<V_other>>}
        \cup {<<V_add, n, p>> : n \in Names, p \in PhoneTexts}
        \cup {<<V_change, n, o, p>> : n \in Names, o \in PhoneTexts, p \in PhoneTexts}
        \cup {<<V_phone, n>> : n \in Names}
        \cup {<<V_add_birthday, n, d>> : n \in Names, d \in DateTexts}
        \cup {<<V_show_birthday, n>> : n \in Names}
        \cup {<<V_add>>, <<V_add, Anna>>, <<V_change, Anna, Phone1>>, <<V_phone>>,
              <<V_add_birthday, Anna>>, <<V_show_birthday>>,
              <<V_add, Anna, Phone1, Phone2>>}

\* the lines typed: the tokens separated by one space, a line with spaces around
\* it, the empty line and a line of spaces
Lines ==
    {join(<<" ">>, t) : t \in TokenLists}
        \cup {<<" ">> \o V_hello \o <<" ", " ">>, <<>>, <<" ", " ">>}

\* parse_input of every line typed
Tokens == [line \in Lines |-> parse_input(line)]

(***************************************************************************)
(* The state.                                                              *)
(*   pc          where the process is: "idle" (not started), "loop" (at    *)
(*               input()), "saving" (inside save_to_file, the file open),  *)
(*               "done" (main returned), "crashed" (an exception left main)*)
(*   book        book.records; after the process ended, its last value     *)
(*   file        address_book.pkl                                          *)
(*   prior       history: the file as it was when the last save began      *)
(*   user_input  the last line read                                        *)
(*   tokens      parse_input(user_input), which main unpacks               *)
(*   output      the lines printed by the last step                        *)
(*   now         the last value read from datetime.today()                 *)
(*   turn        the lines read so far                                     *)
(*   session     the runs of main() started so far                         *)
(***************************************************************************)
VARIABLES pc, book, file, prior, user_input, tokens, output, now, turn, session

vars == <<pc, book, file, prior, user_input, tokens, output, now, turn, session>>

Init ==
    /\ pc = "idle"
    /\ book = AddressBook
    /\ file = NoFile
    /\ prior = NoFile
    /\ user_input = <<>>
    /\ tokens = <<>>
    /\ output = <<>>
    /\ now = [year |-> 2026, month |-> 11, day |-> 5, sec |-> 0]
    /\ turn = 0
    /\ session = 0

\* main, lines 152-154: the book is loaded and the greeting printed; an exception
\* of load_from_file ends the process
Start ==
    /\ pc \in {"idle", "done", "crashed"}
    /\ session < MaxSessions
    /\ session' = session + 1
    /\ LET loaded == load_from_file(file)
       IN  IF loaded.ok
           THEN /\ book' = loaded.val
                /\ output' = <<MsgWelcome>>
                /\ pc' = "loop"
           ELSE /\ book' = book
                /\ output' = <<>>
                /\ pc' = "crashed"
    /\ user_input' = <<>>
    /\ tokens' = <<>>
    /\ UNCHANGED <<file, prior, now, turn>>

\* main, lines 156-157: a line is read and split into tokens
Read(line) ==
    /\ pc = "loop"
    /\ turn < MaxTurns
    /\ user_input' = line
    /\ tokens' = Tokens[line]
    /\ turn' = turn + 1

\* main, line 157 and the tests of command, lines 159-188: the lines with at least
\* one token whose first token, the command, is one of the verbs
LinesFor(verbs) ==
    {line \in Lines : Tokens[line] # <<>> /\ Head(Tokens[line]) \in verbs}

Verbs ==
    {V_close, V_exit, V_hello, V_add, V_change, V_phone, V_all, V_add_birthday,
     V_show_birthday, V_birthdays}

EmptyLines == {line \in Lines : Tokens[line] = <<>>}
CloseLines == LinesFor({V_close, V_exit})
HelloLines == LinesFor({V_hello})
AddLines == LinesFor({V_add})
ChangeLines == LinesFor({V_change})
PhoneLines == LinesFor({V_phone})
AllLines == LinesFor({V_all})
AddBirthdayLines == LinesFor({V_add_birthday})
ShowBirthdayLines == LinesFor({V_show_birthday})
BirthdaysLines == LinesFor({V_birthdays})
InvalidLines == {line \in Lines : Tokens[line] # <<>> /\ Head(Tokens[line]) \notin Verbs}

Args(line) == Tail(Tokens[line])

\* print(handler(args, book)) and back to the top of the loop
Respond(res) ==
    /\ book' = input_error(res).book
    /\ output' = <<input_error(res).ret>>
    /\ pc' = "loop"
    /\ UNCHANGED <<file, prior, session>>

\* main, line 157, with no token: unpacking raises ValueError, which nothing catches
Unpack ==
    \E line \in EmptyLines :
        /\ Read(line)
        /\ pc' = "crashed"
        /\ output' = <<>>
        /\ UNCHANGED <<book, file, prior, now, session>>

\* main, lines 159-160 up to open(filename, 'wb') in save_to_file
Close ==
    \E line \in CloseLines :
        /\ Read(line)
        /\ prior' = file
        /\ file' = open_wb(file)
        /\ pc' = "saving"
        /\ output' = <<>>
        /\ UNCHANGED <<book, now, session>>

\* save_to_file, line 19, completing, then main, lines 161-162
DumpDone ==
    /\ pc = "saving"
    /\ file' = FileOf(pickle_dump(book))
    /\ output' = <<MsgGoodBye>>
    /\ pc' = "done"
    /\ UNCHANGED <<book, prior, user_input, tokens, now, turn, session>>

\* save_to_file, line 19, failing: an OSError of the write (a full disk) or the end
\* of the process leaves what was written so far, and main is left
DumpFails ==
    /\ pc = "saving"
    /\ \E n \in 0..(Len(pickle_dump(book)) - 1) :
           file' = FileOf(SubSeq(pickle_dump(book), 1, n))
    /\ output' = <<>>
    /\ pc' = "crashed"
    /\ UNCHANGED <<book, prior, user_input, tokens, now, turn, session>>

Hello ==
    \E line \in HelloLines :
        /\ Read(line)
        /\ output' = <<MsgHello>>
        /\ pc' = "loop"
        /\ UNCHANGED <<book, file, prior, now, session>>

Add ==
    \E line \in AddLines :
        /\ Read(line)
        /\ Respond(add_contact(Args(line), book))
        /\ UNCHANGED now

Change ==
    \E line \in ChangeLines :
        /\ Read(line)
        /\ Respond(change_contact(Args(line), book))
        /\ UNCHANGED now

PhoneCmd ==
    \E line \in PhoneLines :
        /\ Read(line)
        /\ Respond(find_contact(Args(line), book))
        /\ UNCHANGED now

\* main, lines 176-180: one line per record
All ==
    \E line \in AllLines :
        /\ Read(line)
        /\ output' = [i \in 1..Len(book) |-> RecordLine(book[i].rec)]
        /\ pc' = "loop"
        /\ UNCHANGED <<book, file, prior, now, session>>

AddBirthday ==
    \E line \in AddBirthdayLines :
        /\ Read(line)
        /\ Respond(add_birthday(Args(line), book))
        /\ UNCHANGED now

ShowBirthday ==
    \E line \in ShowBirthdayLines :
        /\ Read(line)
        /\ Respond(show_birthday(Args(line), book))
        /\ UNCHANGED now

Birthdays ==
    \E line \in BirthdaysLines, today \in Clock :
        /\ Read(line)
        /\ now' = today
        /\ Respond(birthdays(Args(line), book, today))

\* main, lines 191-192
Invalid ==
    \E line \in InvalidLines :
        /\ Read(line)
        /\ output' = <<MsgInvalidCommand>>
        /\ pc' = "loop"
        /\ UNCHANGED <<book, file, prior, now, session>>

Next ==
    \/ Start
    \/ Unpack
    \/ Close
    \/ DumpDone
    \/ DumpFails
    \/ Hello
    \/ Add
    \/ Change
    \/ PhoneCmd
    \/ All
    \/ AddBirthday
    \/ ShowBirthday
    \/ Birthdays
    \/ Invalid

Spec == Init /\ [][Next]_vars


(***************************************************************************)
(* Vocabulary of the properties.                                           *)
(***************************************************************************)
\* the names in the store
NamesOf(records) == {records[i].key : i \in 1..Len(records)}

\* the record stored under a name of the store
RecOf(records, name) ==
    records[CHOOSE i \in 1..Len(records) : records[i].key = name].rec

\* the same set of names, and for every name the same phone sequence and birthday
SameStore(a, b) ==
    /\ NamesOf(a) = NamesOf(b)
    /\ \A n \in NamesOf(a) :
          /\ RecOf(a, n).phones = RecOf(b, n).phones
          /\ RecOf(a, n).birthday = RecOf(b, n).birthday

\* exactly 10 ASCII digits
TenAsciiDigits(value) ==
    /\ Len(value) = 10
    /\ \A i \in 1..Len(value) : value[i] \in AsciiDigits

\* a step of the command loop: one line is read and its turn carried out
CommandStep == pc = "loop" /\ turn' = turn + 1

\* the command and the arguments of the line the step read
Typed == tokens'

TypedVerb(verb, nargs) ==
    /\ CommandStep
    /\ Len(Typed) >= 1 + nargs
    /\ Typed[1] = verb

\* the turn answered with the message of a validation error
ValidationErrorPrinted ==
    /\ Len(output') = 1
    /\ output'[1].fmt \in {MsgPhoneError.fmt, MsgDateError.fmt, MsgUnpack(0, 0).fmt}


(***************************************************************************)
(* C1. A command (add, change, add-birthday) that ends in a validation     *)
(* error (bad phone, bad date, missing arguments) leaves the store as it   *)
(* was: the same names, and for every name the same phones and birthday.   *)
(***************************************************************************)
C1_ValidationErrorKeepsStore ==
    [][(/\ CommandStep
        /\ Len(Typed) >= 1
        /\ Typed[1] \in {V_add, V_change, V_add_birthday}
        /\ ValidationErrorPrinted)
          => SameStore(book', book)]_vars

(***************************************************************************)
(* C2. Every phone held by every record of the store is a string of        *)
(* exactly 10 ASCII digits, and a change command whose new phone is not 10 *)
(* ASCII digits alters no stored phone.                                    *)
(***************************************************************************)
AllPhonesTenAsciiDigits(records) ==
    \A i \in 1..Len(records) :
        \A k \in 1..Len(records[i].rec.phones) :
            TenAsciiDigits(records[i].rec.phones[k])

C2_PhonesTenAsciiDigits ==
    [][/\ AllPhonesTenAsciiDigits(book')
       /\ (TypedVerb(V_change, 3) /\ ~TenAsciiDigits(Typed[4]))
             => \A i \in 1..Len(book) : book'[i].rec.phones = book[i].rec.phones]_vars

(***************************************************************************)
(* C3. The command loop ends only on close/exit (or a failure of the       *)
(* persistence): every other line, whatever its tokens and however many,   *)
(* is answered - an unrecognised verb with the fixed invalid-command line, *)
(* a validation failure with its error message - and the loop goes on to   *)
(* read the next line.                                                     *)
(***************************************************************************)
C3_LoopGoesOn ==
    [][(CommandStep /\ ~(Len(Typed) >= 1 /\ Typed[1] \in {V_close, V_exit}))
          => /\ pc' = "loop"
             /\ (Len(Typed) >= 1 /\ Typed[1] \notin Verbs)
                   => output' = <<MsgInvalidCommand>>
             /\ (TypedVerb(V_add, 2) /\ ~TenAsciiDigits(Typed[3]) /\ PhoneRaises(Typed[3]))
                   => output' = <<MsgPhoneError>>
             /\ (TypedVerb(V_add_birthday, 2) /\ Typed[2] \in NamesOf(book)
                     /\ ~StrptimeOk(Typed[3]))
                   => output' = <<MsgDateError>>]_vars


(***************************************************************************)
(* C4. save_to_file followed by load_from_file gives back an equivalent    *)
(* store: when a session that ended with a completed save is followed by   *)
(* the next session's load, the store loaded has the names of the store    *)
(* saved, each with the same phones in the same order and the same         *)
(* birthday, or none.                                                      *)
(***************************************************************************)
C4_SaveLoadRoundTrip ==
    [][(pc = "done" /\ session' = session + 1)
          => (pc' = "loop" /\ SameStore(book', book))]_vars

\* a store with two phones under a name, or with a phone and a birthday, was saved
\* and is loaded again
C4_Witness ==
    /\ pc = "loop"
    /\ session = 2
    /\ file = FileOf(pickle_dump(book))
    /\ \E i \in 1..Len(book) :
          /\ Len(book[i].rec.phones) >= 1
          /\ Len(book[i].rec.phones) = 2 \/ book[i].rec.birthday.has

(***************************************************************************)
(* C5. The save is atomic in the content of the file: at every point       *)
(* during and after a save, also one that fails part-way, the file holds   *)
(* the complete prior snapshot or the complete new one, never an empty,    *)
(* truncated or partial one.                                               *)
(***************************************************************************)
C5_SaveAtomic ==
    [][(pc' = "saving" \/ pc = "saving")
          => file' \in {prior', FileOf(pickle_dump(book'))}]_vars

(***************************************************************************)
(* C6. The birthdays query answers with exactly the names of the records   *)
(* whose birthday, its day and month placed in today's year, falls in the  *)
(* window from today to today + 7 days, both ends included, whatever the   *)
(* year of birth and also when the birthday is today.                      *)
(***************************************************************************)
\* the day and month of the birthday, in the year of today, is a date of the window
InWindow(birthday, today) ==
    LET b == strptime(birthday)
        first == Ordinal(today.year, today.month, today.day)
    IN  /\ b.day <= DaysInMonth(today.year, b.month)
        /\ Ordinal(today.year, b.month, b.day) \in first..(first + 7)

RECURSIVE NamesInWindow(_, _)
NamesInWindow(records, today) ==
    IF records = <<>> THEN <<>>
    ELSE LET rec == Head(records).rec
         IN  (IF rec.birthday.has /\ InWindow(rec.birthday.value, today)
              THEN <<rec.name>> ELSE <<>>)
                 \o NamesInWindow(Tail(records), today)

C6_BirthdaysWindow ==
    [][TypedVerb(V_birthdays, 0)
          => output' = <<IF NamesInWindow(book, now') # <<>>
                         THEN Line("Upcoming birthdays: {}",
                                   <<join(<<",", " ">>, NamesInWindow(book, now'))>>)
                         ELSE MsgNoBirthdays>>]_vars

(***************************************************************************)
(* C7. For a contact of the store and a valid new phone, change <name>     *)
(* <old> <new> replaces exactly the first entry of the contact's phones    *)
(* equal to <old>: the length and every other position stay, later         *)
(* duplicates of <old> too, and every other contact is unchanged. If <old> *)
(* is not among the phones, or the name not in the store, the command      *)
(* reports not-found and the whole store is unchanged.                     *)
(***************************************************************************)
C7_ChangeFirstMatch ==
    [][TypedVerb(V_change, 3)
          => LET name == Typed[2]
                 old == Typed[3]
                 new == Typed[4]
                 known == name \in NamesOf(book)
                 phones == RecOf(book, name).phones
                 occurs == known /\ \E k \in 1..Len(phones) : phones[k] = old
             IN  /\ (occurs /\ TenAsciiDigits(new))
                       => /\ NamesOf(book') = NamesOf(book)
                          /\ \A n \in NamesOf(book) \ {name} :
                                RecOf(book', n) = RecOf(book, n)
                          /\ RecOf(book', name).birthday = RecOf(book, name).birthday
                          /\ Len(RecOf(book', name).phones) = Len(phones)
                          /\ \E k \in 1..Len(phones) :
                                /\ phones[k] = old
                                /\ \A j \in 1..(k - 1) : phones[j] # old
                                /\ RecOf(book', name).phones[k] = new
                                /\ \A j \in 1..Len(phones) :
                                      j # k => RecOf(book', name).phones[j] = phones[j]
                 /\ ~occurs
                       => /\ output' \in {<<MsgContactNotFound>>, <<MsgOldPhoneNotFound>>}
                          /\ book' = book]_vars

\* a phone held twice was changed: the first is the new one, the second stays
C7_Witness ==
    /\ pc = "loop"
    /\ user_input = join(<<" ">>, <<V_change, Anna, Phone1, Phone2>>)
    /\ output = <<Line("Phone number updated for {name}.", <<Anna>>)>>
    /\ \E i \in 1..Len(book) :
          book[i].key = Anna /\ book[i].rec.phones = <<Phone2, Phone1>>

(***************************************************************************)
(* C8. add <name> <phone> with a valid phone and a name of the store       *)
(* appends the phone to the record's phones: they are the phones of before *)
(* followed by the new one, a duplicate too; the birthday, the set of      *)
(* names and every other record are unchanged, and the record is not       *)
(* replaced by a fresh one.                                                *)
(***************************************************************************)
C8_AddAppends ==
    [][(TypedVerb(V_add, 2) /\ Typed[2] \in NamesOf(book) /\ TenAsciiDigits(Typed[3]))
          => /\ NamesOf(book') = NamesOf(book)
             /\ RecOf(book', Typed[2]).phones
                    = Append(RecOf(book, Typed[2]).phones, Typed[3])
             /\ RecOf(book', Typed[2]).birthday = RecOf(book, Typed[2]).birthday
             /\ RecOf(book', Typed[2]).name = Typed[2]
             /\ \A n \in NamesOf(book) \ {Typed[2]} :
                   RecOf(book', n) = RecOf(book, n)]_vars

\* a phone was added a second time to a contact that has a birthday
C8_Witness ==
    /\ pc = "loop"
    /\ user_input = join(<<" ">>, <<V_add, Anna, Phone1>>)
    /\ output = <<Line("Contact updated.", <<>>)>>
    /\ \E i \in 1..Len(book) :
          /\ book[i].key = Anna
          /\ book[i].rec.phones = <<Phone1, Phone1>>
          /\ book[i].rec.birthday.has

(***************************************************************************)
(* C9. load_from_file of a file that does not exist gives a new empty      *)
(* store and raises nothing, so a first session without a snapshot starts  *)
(* with an empty store; the load neither creates nor alters the file.      *)
(***************************************************************************)
C9_LoadMissingFile ==
    [][(session' = session + 1)
          => /\ file' = file
             /\ ~file.exists => (pc' = "loop" /\ book' = <<>>)]_vars

\* a session started without a snapshot file, after a session that read two lines
\* and ended without saving
C9_Witness ==
    /\ pc = "loop"
    /\ session = 2
    /\ turn >= 2
    /\ ~file.exists
    /\ book = <<>>
    /\ output = <<MsgWelcome>>

(***************************************************************************)
(* C10. No contact is lost within a session: over every step of the        *)
(* command loop, every name of the store is still in the store, mapped to  *)
(* a record whose name is its key, with phones not fewer than before.      *)
(***************************************************************************)
C10_ContactsKept ==
    [][CommandStep
          => \A n \in NamesOf(book) :
                /\ n \in NamesOf(book')
                /\ RecOf(book', n).name = n
                /\ Len(RecOf(book', n).phones) >= Len(RecOf(book, n).phones)]_vars

\* a phone was added to one of two contacts that both have a phone
C10_Witness ==
    /\ pc = "loop"
    /\ user_input = join(<<" ">>, <<V_add, Anna, Phone2>>)
    /\ NamesOf(book) = {Anna, Bob}
    /\ RecOf(book, Anna).phones = <<Phone1, Phone2>>
    /\ Len(RecOf(book, Bob).phones) = 1

=============================================================================
